---- MODULE Spec2Model ----
(***************************************************************************)
(* Model of channel::_channel<T> (include/channel.hpp): a FIFO queue q     *)
(* guarded by the mutex mu, with the condition variables _full (senders    *)
(* waiting for space) and _empty (receivers waiting for an item), and the  *)
(* one-way flag _closed.                                                   *)
(*                                                                         *)
(* Every critical section runs with mu held from its first to its last     *)
(* statement, so each is one atomic action: from the lock (or the wake-up  *)
(* of a wait, which re-locks) to the unlock or to the next wait, which     *)
(* unlocks.  The one access made outside mu, the check_closed that opens   *)
(* recv, is an action of its own.  exit() ends the whole process: no       *)
(* action is enabled afterwards.                                           *)
(*                                                                         *)
(* Spec and FairSpec are the core on its own.  HandleSpec and              *)
(* HandleFairSpec are the core behind the handles channel and              *)
(* send_channel, whose close and destructors are made of several calls to  *)
(* the core, each a critical section and an action of its own.             *)
(***************************************************************************)
EXTENDS Naturals, Sequences, FiniteSets

\* ---- bounds of the model ----
NumThreads == 3
MaxCap == 2
MaxSends == 4

\* ---- program constants ----
SEND_CLOSED_ERR == 2
RECV_CLOSED_ERR == 3
CLOSE_CLOSED_ERR == 4

Threads == 1..NumThreads
Running == 0

\* exitCode once std::terminate has ended the process: no status of exit()
Terminated == 1

VARIABLES
  cap,        \* size_t cap: 0 means unbounded
  _full,      \* threads blocked inside _full.wait
  _empty,     \* threads blocked inside _empty.wait
  q,          \* std::queue<T> q, front first
  _closed,    \* bool _closed
  pc,         \* per thread: where it is in the operation it runs
  item,       \* per thread: the argument t of the send it is inside
  ret,        \* the return the last step made, None if it made none
  exitCode,   \* status passed to exit(), Running while the process lives
  nextItem,   \* the next fresh item a send is called with
  sent,       \* history: items pushed by send, in push order
  received,   \* history: items popped by recv/recv_immed, in pop order
  flushed,    \* history: a flush has discarded items
  discarded,  \* history: items dropped by close and flush, in drop order
  unlocked,   \* the fields the last step read or wrote without holding mu
  handle,     \* per handle sharing the core: none, live, dying or dead
  dying       \* per thread: the handle whose destructor it runs, or "none"

vars == <<cap, _full, _empty, q, _closed, pc, item, ret,
          exitCode, nextItem, sent, received, flushed, discarded, unlocked,
          handle, dying>>

core == <<cap, q, _closed>>
cvs == <<_full, _empty>>
hist == <<sent, received, flushed, discarded>>
handles == <<handle, dying>>

\* the handles that may share one core: a channel and the send_channel its
\* converting constructor derives from it
Handles == {"channel", "send_channel"}

\* the record of a return: thread t returns from operation op; b is the
\* bool returned (send, closed), whether the optional holds a value
\* (recv_immed), TRUE otherwise; v is the item returned, 0 if none is
Ret(t, op, b, v) == [by |-> t, op |-> op, b |-> b, v |-> v]

\* the step returned from no operation
None == Ret(0, "none", FALSE, 0)

\* ---------------------------------------------------------------------------
\* condition variables
\* ---------------------------------------------------------------------------

\* mutant of NotifyOne: the notification reaches nobody
NotifyNone(cv) == {{}}

\* notify_one: one of the waiting threads is woken, none if nobody waits
NotifyOne(cv) == IF cv = {} THEN {{}} ELSE {{w} : w \in cv}

\* notify_all: every waiting thread is woken
NotifyAll(cv) == {cv}

\* program counters after thread t moved to `to` and the threads of the sets
\* WF (senders) and WE (receivers) were woken
Moved(t, to, WF, WE) ==
  [u \in Threads |->
     IF u = t THEN to
     ELSE IF u \in WF THEN "send_woke"
     ELSE IF u \in WE THEN "recv_woke"
     ELSE pc[u]]

\* a wait may end without a notification
SpuriousWake(t) ==
  /\ exitCode = Running
  /\ \/ /\ t \in _full
        /\ _full' = _full \ {t}
        /\ pc' = [pc EXCEPT ![t] = "send_woke"]
        /\ UNCHANGED _empty
     \/ /\ t \in _empty
        /\ _empty' = _empty \ {t}
        /\ pc' = [pc EXCEPT ![t] = "recv_woke"]
        /\ UNCHANGED _full
  /\ ret' = None
  /\ UNCHANGED <<core, item, exitCode, nextItem, hist>>

\* ---------------------------------------------------------------------------
\* initial state: a freshly constructed core of any capacity
\* ---------------------------------------------------------------------------
\* _channel(size_t cap): an empty open core, and threads that have called
\* nothing yet
Constructed ==
  /\ cap \in 0..MaxCap
  /\ _full = {}
  /\ _empty = {}
  /\ q = <<>>
  /\ _closed = FALSE
  /\ pc = [t \in Threads |-> "idle"]
  /\ item = [t \in Threads |-> 0]
  /\ ret = None
  /\ exitCode = Running
  /\ nextItem = 1
  /\ sent = <<>>
  /\ received = <<>>
  /\ flushed = FALSE
  /\ discarded = <<>>
  /\ unlocked = {}
  /\ dying = [t \in Threads |-> "none"]

\* the core on its own, no handle made for it
Init ==
  /\ Constructed
  /\ handle = [h \in Handles |-> "none"]

\* channel(size_t cap): a core and the channel handle that made it
HandleInit ==
  /\ Constructed
  /\ handle = [h \in Handles |-> IF h = "channel" THEN "live" ELSE "none"]

\* ---------------------------------------------------------------------------
\* check_closed
\* ---------------------------------------------------------------------------
\* check_closed found _closed set: exit(exit_code)
Exit(t, code) ==
  /\ exitCode' = code
  /\ pc' = [pc EXCEPT ![t] = "exited"]
  /\ ret' = None
  /\ UNCHANGED <<core, cvs, item, nextItem, hist>>

\* ---------------------------------------------------------------------------
\* send
\* ---------------------------------------------------------------------------
\* mutants of SendPred: a full buffer accepts one more item; capacity 0 is
\* taken as a bound like any other
SendPredOffByOne == _closed \/ (cap = 0 \/ Len(q) <= cap)
SendPredNoUnbounded == _closed \/ Len(q) < cap

\* the predicate of _full.wait
SendPred == _closed \/ (cap = 0 \/ Len(q) < cap)

\* mutant of SendRejected: send on a closed core exits like recv and close do
SendRejectedExits(t) ==
  /\ exitCode' = SEND_CLOSED_ERR
  /\ pc' = [pc EXCEPT ![t] = "exited"]
  /\ ret' = None
  /\ UNCHANGED <<core, cvs, item, hist>>

\* send finds the core closed, at entry or after the wait: return false
SendRejected(t) ==
  /\ pc' = [pc EXCEPT ![t] = "idle"]
  /\ item' = [item EXCEPT ![t] = 0]
  /\ ret' = Ret(t, "send", FALSE, 0)
  /\ UNCHANGED <<core, cvs, exitCode, hist>>

\* q.push(t); _empty.notify_one(); return true
SendPush(t, x) ==
  /\ q' = Append(q, x)
  /\ sent' = Append(sent, x)
  /\ \E W \in NotifyOne(_empty) :
       /\ _empty' = _empty \ W
       /\ pc' = Moved(t, "idle", {}, W)
  /\ item' = [item EXCEPT ![t] = 0]
  /\ ret' = Ret(t, "send", TRUE, 0)
  /\ UNCHANGED <<cap, _closed, _full, exitCode, received, flushed, discarded>>

\* _full.wait finds its predicate false: unlock and block
SendWait(t, x) ==
  /\ _full' = _full \cup {t}
  /\ pc' = [pc EXCEPT ![t] = "send_wait"]
  /\ item' = [item EXCEPT ![t] = x]
  /\ ret' = None
  /\ UNCHANGED <<core, _empty, exitCode, hist>>

\* send(x) from the lock to the return or to the wait
SendBody(t, x) ==
  IF _closed THEN SendRejected(t)
  ELSE IF SendPred THEN SendPush(t, x)
  ELSE SendWait(t, x)

\* a thread calls send with a fresh item
Send(t) ==
  /\ exitCode = Running
  /\ pc[t] = "idle"
  /\ nextItem <= MaxSends
  /\ nextItem' = nextItem + 1
  /\ SendBody(t, nextItem)

\* a woken sender re-locks and evaluates the predicate again
SendWoke(t) ==
  /\ exitCode = Running
  /\ pc[t] = "send_woke"
  /\ SendBody(t, item[t])
  /\ UNCHANGED nextItem

\* ---------------------------------------------------------------------------
\* recv, recv_immed
\* ---------------------------------------------------------------------------
\* the predicate of _empty.wait
RecvPred == _closed \/ q # <<>>

\* the values a read of _closed made without holding mu may yield: nothing
\* orders the read after the write of close, so a set flag may read false
RacyClosed == IF _closed THEN {TRUE, FALSE} ELSE {FALSE}

\* a thread calls recv: the check_closed made before mu is locked
RecvCheck(t) ==
  /\ exitCode = Running
  /\ pc[t] = "idle"
  /\ unlocked' = {"_closed"}
  /\ \E c \in RacyClosed :
       IF c THEN Exit(t, RECV_CLOSED_ERR)
       ELSE /\ pc' = [pc EXCEPT ![t] = "recv_lock"]
            /\ ret' = None
            /\ UNCHANGED <<core, cvs, item, exitCode, nextItem, hist>>

\* mutant of Front: the receive returns the newest item
FrontIsBack(s) == s[Len(s)]

\* mutant of Pop: the item received stays in the buffer
PopNothing(s) == s

\* the item a receive takes and the queue it leaves
Front(s) == Head(s)
Pop(s) == Tail(s)

\* mutant of PopNotify: the receive wakes no sender
PopNotifyNobody(cv) == {{}}

\* the senders a receive wakes: _full.notify_one()
PopNotify(cv) == NotifyOne(cv)

\* T t = q.front(); q.pop(); _full.notify_one(); return t
TakeFront(t, op) ==
  /\ q' = Pop(q)
  /\ received' = Append(received, Front(q))
  /\ \E W \in PopNotify(_full) :
       /\ _full' = _full \ W
       /\ pc' = Moved(t, "idle", W, {})
  /\ ret' = Ret(t, op, TRUE, Front(q))
  /\ UNCHANGED <<cap, _closed, _empty, item, exitCode, nextItem, sent, flushed,
                 discarded>>

\* _empty.wait finds its predicate false: unlock and block
RecvWait(t) ==
  /\ _empty' = _empty \cup {t}
  /\ pc' = [pc EXCEPT ![t] = "recv_wait"]
  /\ ret' = None
  /\ UNCHANGED <<core, _full, item, exitCode, nextItem, hist>>

\* mutant of Recv: the check_closed after the wait is missing, and recv
\* returns on a closed core
RecvUnchecked(t) ==
  /\ exitCode = Running
  /\ pc[t] \in {"recv_lock", "recv_woke"}
  /\ IF ~RecvPred THEN RecvWait(t)
     ELSE IF q # <<>> THEN TakeFront(t, "recv")
     ELSE /\ pc' = [pc EXCEPT ![t] = "idle"]
          /\ ret' = Ret(t, "recv", TRUE, 0)
          /\ UNCHANGED <<core, cvs, item, exitCode, nextItem, hist>>

\* recv from the lock, or from the wake-up of the wait, to the return, the
\* exit or the wait
Recv(t) ==
  /\ exitCode = Running
  /\ pc[t] \in {"recv_lock", "recv_woke"}
  /\ IF ~RecvPred THEN RecvWait(t)
     ELSE IF _closed THEN Exit(t, RECV_CLOSED_ERR)
     ELSE TakeFront(t, "recv")

\* mutant of RecvImmed: recv_immed checks the flag as recv does and exits on
\* a closed core
RecvImmedChecked(t) ==
  /\ exitCode = Running
  /\ pc[t] = "idle"
  /\ IF _closed THEN Exit(t, RECV_CLOSED_ERR)
     ELSE IF q = <<>>
     THEN /\ ret' = Ret(t, "recv_immed", FALSE, 0)
          /\ UNCHANGED <<core, cvs, pc, item, exitCode, nextItem, hist>>
     ELSE TakeFront(t, "recv_immed")

\* recv_immed: an empty optional from an empty buffer, the front item
\* otherwise
RecvImmed(t) ==
  /\ exitCode = Running
  /\ pc[t] = "idle"
  /\ IF q = <<>>
     THEN /\ ret' = Ret(t, "recv_immed", FALSE, 0)
          /\ UNCHANGED <<core, cvs, pc, item, exitCode, nextItem, hist>>
     ELSE TakeFront(t, "recv_immed")

\* ---------------------------------------------------------------------------
\* close, flush, closed
\* ---------------------------------------------------------------------------
\* mutant of Swapped: close keeps the buffered items
SwapForgotten(s) == s

\* the queue close leaves: std::swap(q, empty_q)
Swapped(s) == <<>>

\* mutant of CloseNotify: close wakes one waiter only
CloseNotifyOne(cv) == NotifyOne(cv)

\* the waiters close wakes on a condition variable: notify_all()
CloseNotify(cv) == NotifyAll(cv)

\* the effect of close on an open core; the caller goes on at `to` and the
\* step returns r
CloseEffect(t, to, r) ==
  /\ _closed' = TRUE
  /\ q' = Swapped(q)
  /\ discarded' = discarded \o q
  /\ \E WF \in CloseNotify(_full), WE \in CloseNotify(_empty) :
       /\ _full' = _full \ WF
       /\ _empty' = _empty \ WE
       /\ pc' = Moved(t, to, WF, WE)
  /\ ret' = r
  /\ UNCHANGED <<cap, item, exitCode, nextItem, sent, received, flushed>>

\* close on an open core, called on the core itself
CloseOpen(t) == CloseEffect(t, "idle", Ret(t, "close", TRUE, 0))

\* mutant of Close: a second close is accepted
CloseIdempotent(t) ==
  /\ exitCode = Running
  /\ pc[t] = "idle"
  /\ IF _closed
     THEN /\ ret' = Ret(t, "close", TRUE, 0)
          /\ UNCHANGED <<core, cvs, pc, item, exitCode, nextItem, hist>>
     ELSE CloseOpen(t)

Close(t) ==
  /\ exitCode = Running
  /\ pc[t] = "idle"
  /\ IF _closed THEN Exit(t, CLOSE_CLOSED_ERR) ELSE CloseOpen(t)

\* mutant of FlushClosed: flush reopens the core
FlushReopens == FALSE

\* _closed as flush leaves it
FlushClosed == _closed

\* the effect of flush; the caller goes on at `to` and the step returns r
FlushEffect(t, to, r) ==
  /\ q' = <<>>
  /\ _closed' = FlushClosed
  /\ flushed' = (flushed \/ q # <<>>)
  /\ discarded' = discarded \o q
  /\ \E W \in NotifyOne(_full) :
       /\ _full' = _full \ W
       /\ pc' = Moved(t, to, W, {})
  /\ ret' = r
  /\ UNCHANGED <<cap, _empty, item, exitCode, nextItem, sent, received>>

Flush(t) ==
  /\ exitCode = Running
  /\ pc[t] = "idle"
  /\ FlushEffect(t, "idle", Ret(t, "flush", TRUE, 0))

Closed(t) ==
  /\ exitCode = Running
  /\ pc[t] = "idle"
  /\ ret' = Ret(t, "closed", _closed, 0)
  /\ UNCHANGED <<core, cvs, pc, item, exitCode, nextItem, hist>>

\* ---------------------------------------------------------------------------
\* the handles channel and send_channel
\* ---------------------------------------------------------------------------
\* some handle, and the channel handle, can be called through
HasHandle == \E h \in Handles : handle[h] = "live"
HasChannel == handle["channel"] = "live"

\* send_channel(const channel<U>& c) : ch(c.ch): one more handle on the core
SendChannelCtor(t) ==
  /\ exitCode = Running
  /\ pc[t] = "idle"
  /\ HasChannel
  /\ handle["send_channel"] = "none"
  /\ handle' = [handle EXCEPT !["send_channel"] = "live"]
  /\ ret' = None
  /\ unlocked' = {}
  /\ UNCHANGED <<core, cvs, pc, item, exitCode, nextItem, hist, dying>>

\* send, closed and recv of a handle forward to the core
HandleSend(t) == HasHandle /\ Send(t)
HandleClosed(t) == HasHandle /\ Closed(t)
HandleRecvCheck(t) == HasChannel /\ RecvCheck(t)

\* the caller of channel::recv_immed catches bad_optional_access and goes
\* on, or does not and std::terminate ends the process
Thrown(t) ==
  /\ \/ UNCHANGED <<pc, exitCode>>
     \/ /\ pc' = [pc EXCEPT ![t] = "exited"]
        /\ exitCode' = Terminated
  /\ ret' = Ret(t, "bad_optional_access", FALSE, 0)
  /\ UNCHANGED <<core, cvs, item, nextItem, hist>>

\* channel::recv_immed: ch->recv_immed().value(), and value() of an empty
\* optional throws
ChannelRecvImmed(t) ==
  /\ exitCode = Running
  /\ pc[t] = "idle"
  /\ HasChannel
  /\ IF q = <<>> THEN Thrown(t) ELSE TakeFront(t, "recv_immed")

\* mutant of HandleCloseTest: close of a handle calls the close of the core
\* whatever closed() returns
HandleCloseUnguarded(t) ==
  /\ exitCode = Running
  /\ pc[t] = "idle"
  /\ HasHandle
  /\ pc' = [pc EXCEPT ![t] = "hclose_close"]
  /\ ret' = None
  /\ UNCHANGED <<core, cvs, item, exitCode, nextItem, hist>>

\* close of a handle, first call: if (!closed())
HandleCloseTest(t) ==
  /\ exitCode = Running
  /\ pc[t] = "idle"
  /\ HasHandle
  /\ pc' = [pc EXCEPT ![t] = IF _closed THEN "hclose_flush" ELSE "hclose_close"]
  /\ ret' = None
  /\ UNCHANGED <<core, cvs, item, exitCode, nextItem, hist>>

\* close of a handle, second call: ch->close()
HandleCloseClose(t) ==
  /\ exitCode = Running
  /\ pc[t] = "hclose_close"
  /\ IF _closed THEN Exit(t, CLOSE_CLOSED_ERR)
     ELSE CloseEffect(t, "hclose_flush", None)

\* close of a handle, last call: ch->flush()
HandleCloseFlush(t) ==
  /\ exitCode = Running
  /\ pc[t] = "hclose_flush"
  /\ FlushEffect(t, "idle", Ret(t, "handle_close", TRUE, 0))

\* the destructor of handle h ends and its shared_ptr is released.  With
\* the last handle the core is destroyed: ~_channel finds it closed, as
\* every handle's destructor leaves it, and flushes its empty buffer with
\* no thread left inside the core, which changes nothing.
Release(t, h) ==
  /\ handle' = [handle EXCEPT ![h] = "dead"]
  /\ dying' = [dying EXCEPT ![t] = "none"]

\* a handle may be destroyed while no thread is inside a call made through
\* it: recv is called through the channel only, and every call is made
\* through the last handle
Unused(t, h) ==
  /\ h = "channel" =>
       \A u \in Threads : pc[u] \notin {"recv_lock", "recv_wait", "recv_woke"}
  /\ (\A g \in Handles \ {h} : handle[g] # "live") =>
       \A u \in Threads \ {t} : pc[u] \in {"idle", "dtor_close"}

\* ~channel, ~send_channel, first call: if (!closed())
DtorTest(t, h) ==
  /\ exitCode = Running
  /\ pc[t] = "idle"
  /\ handle[h] = "live"
  /\ Unused(t, h)
  /\ IF _closed
     THEN /\ Release(t, h)
          /\ ret' = Ret(t, "dtor", TRUE, 0)
          /\ UNCHANGED pc
     ELSE /\ handle' = [handle EXCEPT ![h] = "dying"]
          /\ dying' = [dying EXCEPT ![t] = h]
          /\ pc' = [pc EXCEPT ![t] = "dtor_close"]
          /\ ret' = None
  /\ UNCHANGED <<core, cvs, item, exitCode, nextItem, hist>>

\* mutant of DtorClose: the destructor lets go of the core without closing
\* it
DtorCloseSkipped(t) ==
  /\ exitCode = Running
  /\ pc[t] = "dtor_close"
  /\ Release(t, dying[t])
  /\ pc' = [pc EXCEPT ![t] = "idle"]
  /\ ret' = Ret(t, "dtor", TRUE, 0)
  /\ UNCHANGED <<core, cvs, item, exitCode, nextItem, hist>>

\* ~channel, ~send_channel, second call: ch->close()
DtorClose(t) ==
  /\ exitCode = Running
  /\ pc[t] = "dtor_close"
  /\ IF _closed
     THEN Exit(t, CLOSE_CLOSED_ERR) /\ UNCHANGED handles
     ELSE /\ CloseEffect(t, "idle", Ret(t, "dtor", TRUE, 0))
          /\ Release(t, dying[t])

\* ---------------------------------------------------------------------------
\* specifications
\* ---------------------------------------------------------------------------
\* a step that runs with mu held from its first access of cap, q or
\* _closed to its last: the scoped_lock or unique_lock that opens the
\* operation, or the re-lock that ends a wait
UnderLock(A) == A /\ unlocked' = {}

\* a step of an operation of the core: the handles stay as they are
OnCore(A) == A /\ UNCHANGED handles

\* the core on its own: threads call the operations of one _channel
Next ==
  \/ \E t \in Threads : OnCore(UnderLock(Send(t)))
  \/ \E t \in Threads : OnCore(UnderLock(SendWoke(t)))
  \/ \E t \in Threads : OnCore(RecvCheck(t))
  \/ \E t \in Threads : OnCore(UnderLock(Recv(t)))
  \/ \E t \in Threads : OnCore(UnderLock(RecvImmed(t)))
  \/ \E t \in Threads : OnCore(UnderLock(Close(t)))
  \/ \E t \in Threads : OnCore(UnderLock(Flush(t)))
  \/ \E t \in Threads : OnCore(UnderLock(Closed(t)))
  \/ \E t \in Threads : OnCore(UnderLock(SpuriousWake(t)))

Spec == Init /\ [][Next]_vars

\* A thread that is inside send or recv and not blocked in a wait goes on:
\* the scheduler runs it and the mutex is free again after every critical
\* section.  Nothing obliges a thread to call an operation, and nothing
\* obliges a wait to end without a notification.
FairSpec ==
  /\ Spec
  /\ \A t \in Threads : WF_vars(OnCore(UnderLock(SendWoke(t))))
  /\ \A t \in Threads : WF_vars(OnCore(UnderLock(Recv(t))))

\* the core behind its handles: threads call the operations of channel and
\* send_channel, derive the send_channel and destroy handles
HandleNext ==
  \/ \E t \in Threads : SendChannelCtor(t)
  \/ \E t \in Threads : OnCore(UnderLock(HandleSend(t)))
  \/ \E t \in Threads : OnCore(UnderLock(SendWoke(t)))
  \/ \E t \in Threads : OnCore(HandleRecvCheck(t))
  \/ \E t \in Threads : OnCore(UnderLock(Recv(t)))
  \/ \E t \in Threads : OnCore(UnderLock(ChannelRecvImmed(t)))
  \/ \E t \in Threads : OnCore(UnderLock(HandleClosed(t)))
  \/ \E t \in Threads : OnCore(UnderLock(HandleCloseTest(t)))
  \/ \E t \in Threads : OnCore(UnderLock(HandleCloseClose(t)))
  \/ \E t \in Threads : OnCore(UnderLock(HandleCloseFlush(t)))
  \/ \E t \in Threads, h \in Handles : UnderLock(DtorTest(t, h))
  \/ \E t \in Threads : UnderLock(DtorClose(t))
  \/ \E t \in Threads : OnCore(UnderLock(SpuriousWake(t)))

HandleSpec == HandleInit /\ [][HandleNext]_vars

\* As in FairSpec, a thread inside an operation and not blocked in a wait
\* goes on, be it between the calls a handle's close or destructor makes.
HandleFairSpec ==
  /\ HandleSpec
  /\ \A t \in Threads : WF_vars(OnCore(UnderLock(SendWoke(t))))
  /\ \A t \in Threads : WF_vars(OnCore(UnderLock(Recv(t))))
  /\ \A t \in Threads : WF_vars(OnCore(UnderLock(HandleCloseClose(t))))
  /\ \A t \in Threads : WF_vars(OnCore(UnderLock(HandleCloseFlush(t))))
  /\ \A t \in Threads : WF_vars(UnderLock(DtorClose(t)))

\* ---------------------------------------------------------------------------
\* properties
\* ---------------------------------------------------------------------------
IsPrefix(s, r) == Len(s) <= Len(r) /\ SubSeq(r, 1, Len(s)) = s

InSend(t) == pc[t] \in {"send_wait", "send_woke"}
InRecv(t) == pc[t] \in {"recv_lock", "recv_wait", "recv_woke"}
Woken(t) == pc[t] \in {"send_woke", "recv_woke"}
Full == cap > 0 /\ Len(q) >= cap

\* C1: on a core neither closed nor flushed, the items received so far, in
\* the order the receives held the lock, are the first items sent, in the
\* order the sends held the lock.
C1_Fifo == (~_closed /\ ~flushed) => IsPrefix(received, sent)

\* three items sent by racing senders, out of call order, and all received
\* in the order they were pushed
C1_Witness ==
  /\ ~_closed /\ ~flushed
  /\ sent = <<1, 3, 2>>
  /\ received = sent

\* C2: a bounded core never buffers more than cap items.
C2_Bounded == cap > 0 => Len(q) <= cap

\* a full buffer with a sender waiting for space
C2_Witness == cap > 0 /\ Len(q) = cap /\ _full # {}

\* C3, first part: while the buffer is full and the core open, no step takes
\* a blocked send out of send.
C3_BlockedWhileFull ==
  [][\A t \in Threads :
       (InSend(t) /\ Full /\ ~_closed) => InSend(t)']_vars

\* C3, the return: a send that was blocked returns success only from a
\* buffer with room, and leaves its item at the back.
C3_AppendsAtBack ==
  [][\A t \in Threads :
       (InSend(t) /\ ret' = Ret(t, "send", TRUE, 0))
         => (~Full /\ q' = Append(q, item[t]))]_vars

\* C3, second part: once a receive has made room, a blocked send returns
\* success, unless the core is closed or other sends fill the buffer first.
C3_Unblocks ==
  \A t \in Threads :
    (InSend(t) /\ ~Full /\ ~_closed /\ ~flushed)
      ~> (ret = Ret(t, "send", TRUE, 0) \/ _closed \/ Full)

\* C3: a send on a full bounded core blocks until a receive makes room and
\* then completes with its item at the back of the buffer.
C3_SendBlocksUntilRecv ==
  C3_BlockedWhileFull /\ C3_AppendsAtBack /\ C3_Unblocks

\* capacity 2, sends of 1, 2, 3: the third send was blocked and the receive
\* of 1 has just woken it
C3_Witness ==
  /\ cap = 2 /\ ~_closed /\ ~flushed
  /\ received = <<1>> /\ q = <<2>>
  /\ \E t \in Threads : pc[t] = "send_woke" /\ item[t] = 3

\* C4: on a core of capacity 0 no send ever waits for space, and a send
\* fails only because the core is closed.
C4_Unbounded ==
  cap = 0 =>
    /\ _full = {}
    /\ \A t \in Threads : ~InSend(t)
    /\ \A t \in Threads : ret = Ret(t, "send", FALSE, 0) => _closed

\* an open core of capacity 0 holding more items than any bounded core of
\* the model, the last send having just returned true
C4_Witness ==
  /\ cap = 0 /\ ~_closed /\ Len(q) > MaxCap
  /\ \E t \in Threads : ret = Ret(t, "send", TRUE, 0)

\* C5: a closed core has an empty buffer.
C5_ClosedEmpty == _closed => q = <<>>

\* items were discarded by close, and a later send has been turned away
C5_Witness ==
  /\ _closed /\ ~flushed /\ Len(sent) > Len(received)
  /\ \E t \in Threads : ret = Ret(t, "send", FALSE, 0)

\* C6: _closed starts false and no step resets it.
C6_ClosedMonotonic == ~_closed /\ [][_closed => _closed']_vars

\* a flush has just run on a closed core
C6_Witness == _closed /\ \E t \in Threads : ret = Ret(t, "flush", TRUE, 0)

C8_CloseWakesAll ==
  /\ [](_closed => (_full = {} /\ _empty = {}))
  /\ [][\A t \in Threads :
          (_closed /\ SendWoke(t)) => ret' = Ret(t, "send", FALSE, 0)]_vars
  /\ [][\A t \in Threads :
          (_closed /\ Recv(t)) => exitCode' = RECV_CLOSED_ERR]_vars
  /\ _closed ~> (exitCode # Running \/ \A t \in Threads : ~Woken(t))

\* close has just woken two blocked threads
C8_Witness ==
  /\ _closed /\ exitCode = Running
  /\ \E t \in Threads : ret = Ret(t, "close", TRUE, 0)
  /\ Cardinality({t \in Threads : Woken(t)}) >= 2

C10_DoubleClose ==
  [][\A t \in Threads :
       /\ (_closed /\ Close(t))
            => (exitCode' = CLOSE_CLOSED_ERR /\ UNCHANGED core)
       /\ (~_closed /\ Close(t))
            => (exitCode' = Running /\ _closed')]_vars

\* the second of two closes has ended the process
C10_Witness == _closed /\ exitCode = CLOSE_CLOSED_ERR

\* C11: recv_immed returns at once and never exits.  From an empty buffer,
\* and only then, it returns no value and changes nothing, on an open core
\* and on a closed one; otherwise it returns the front item and leaves the
\* flag and the rest of the buffer, in its order, behind.
C11_RecvImmed ==
  [][\A t \in Threads :
       RecvImmed(t)
         => /\ exitCode' = Running
            /\ pc'[t] = "idle" /\ t \notin (_full' \cup _empty')
            /\ (ret' = Ret(t, "recv_immed", FALSE, 0)) <=> (q = <<>>)
            /\ q = <<>> => UNCHANGED <<core, cvs, pc, hist>>
            /\ q # <<>> => /\ ret' = Ret(t, "recv_immed", TRUE, Head(q))
                           /\ q' = Tail(q)
                           /\ _closed' = _closed]_vars

\* recv_immed has just returned no value on a closed core
C11_Witness ==
  /\ _closed /\ exitCode = Running /\ sent # <<>>
  /\ \E t \in Threads : ret = Ret(t, "recv_immed", FALSE, 0)

\* the senders and the receivers a notification has woken and that have not
\* run since
WokenSenders == {t \in Threads : pc[t] = "send_woke"}
WokenReceivers == {t \in Threads : pc[t] = "recv_woke"}

\* the free places of a bounded buffer
Room == IF cap > 0 /\ Len(q) < cap THEN cap - Len(q) ELSE 0

\* C18, the states: on an open core no flush has emptied, while a receiver
\* is parked every buffered item has a woken receiver on its way to it, and
\* while a sender is parked every free place has a woken sender on its way
\* to it; no sender is ever parked on an unbounded core.
C18_Covered ==
  (~_closed /\ ~flushed) =>
    /\ _empty # {} => Len(q) <= Cardinality(WokenReceivers)
    /\ _full # {} => (cap > 0 /\ Room <= Cardinality(WokenSenders))

\* C18, the consequence: a receiver inside recv on an open core that holds
\* an item returns an item, unless the core is closed or other receives
\* empty the buffer first.
C18_RecvUnblocks ==
  \A t \in Threads :
    (InRecv(t) /\ q # <<>> /\ ~_closed)
      ~> (\E x \in 1..MaxSends : ret = Ret(t, "recv", TRUE, x)) \/ _closed \/ q = <<>>

\* C18: without flush no wake-up is lost: no thread stays parked in recv
\* beside an item, or in send beside a free place, that no woken thread is
\* on its way to take.
C18_NoLostWakeup == []C18_Covered /\ C18_RecvUnblocks

\* two receivers were parked and one send has woken one of them: the other
\* stays parked beside the item, which the woken one is on its way to take
C18_Witness ==
  /\ ~_closed /\ ~flushed /\ Len(q) = 1
  /\ _empty # {} /\ Cardinality(WokenReceivers) = 1

\* C17, the buffer and the flag: flush on an open bounded core empties the
\* buffer and leaves the core open.
C17_FlushDiscards ==
  [][\A t \in Threads :
       (Flush(t) /\ ~_closed /\ cap > 0) => (q' = <<>> /\ ~_closed')]_vars

\* the smaller of two numbers
Min(a, b) == IF a < b THEN a ELSE b

\* C17, the wake-up: flush on an open bounded core wakes as many of the
\* senders waiting for space as the emptied buffer has places for.
C17_FlushWakes ==
  [][\A t \in Threads :
       (Flush(t) /\ ~_closed /\ cap > 0)
         => Cardinality(_full \ _full') >= Min(Cardinality(_full), cap)]_vars

\* C17, the senders: a sender blocked in send on an open core, flushed or
\* not, whose buffer has room returns success, unless the core is closed or
\* other sends fill the buffer first.  With k senders blocked on a full
\* core of capacity cap when flush runs, and no receive afterwards, this
\* makes min(k, cap) of them complete.
C17_SendersComplete ==
  \A t \in Threads :
    (InSend(t) /\ ~Full /\ ~_closed)
      ~> (ret = Ret(t, "send", TRUE, 0) \/ _closed \/ Full)

\* C17: flush on an open bounded core discards the buffered items, keeps
\* the flag, and wakes the senders waiting for space, as many as the
\* emptied buffer has places for.
C17_FlushWakesSenders ==
  C17_FlushDiscards /\ C17_FlushWakes /\ C17_SendersComplete

\* the items of a sequence, and a sequence that holds no item twice
Items(s) == {s[i] : i \in 1..Len(s)}
NoDup(s) == Cardinality(Items(s)) = Len(s)

\* the items whose send has returned false: passed to a send that neither
\* pushed them nor is still inside the call
Rejected ==
  {x \in 1..(nextItem - 1) :
     x \notin Items(sent) /\ \A t \in Threads : item[t] # x}

\* C19: the items whose send returned true are the items in the buffer, the
\* items receives returned and the items close and flush dropped, each in
\* one of the three places and there once; an item whose send returned
\* false is in none of them.
C19_Conservation ==
  /\ NoDup(sent)
  /\ NoDup(q \o received \o discarded)
  /\ Items(q \o received \o discarded) = Items(sent)
  /\ Rejected \cap Items(q \o received \o discarded) = {}

\* four sends: one item was received, one dropped by flush, one dropped by
\* close, and the last send was turned away
C19_Witness ==
  /\ _closed /\ flushed /\ Len(discarded) = 2 /\ Len(received) = 1
  /\ Rejected # {}

\* C16: no step of send, recv, recv_immed, close, closed or flush reads or
\* writes cap, q or _closed without holding mu.
C16_AllUnderLock == unlocked = {}

\* C12: every step of recv_immed called through the channel handle is a
\* step of recv_immed of the core: from an empty buffer, open or closed, it
\* returns no value and the caller goes on; otherwise it returns the front
\* item.
C12_ChannelRecvImmed ==
  [][\A t \in Threads : ChannelRecvImmed(t) => RecvImmed(t)]_vars

C20_GuardedCloseNeverExits ==
  [][\A t \in Threads :
       (HandleCloseClose(t) \/ DtorClose(t))
         => (exitCode' = Running /\ ~_closed /\ _closed')]_vars

\* a step of the destructor of handle h, run by thread t
Destroys(t, h) == DtorTest(t, h) \/ (dying[t] = h /\ DtorClose(t))

\* C14: the destructor of a handle leaves the core as it is while another
\* handle of the core is alive: a core that was open stays open and keeps
\* its buffered items, so that the handle that survives can send and recv.
C14_SharedCoreStaysOpen ==
  [][\A t \in Threads, h \in Handles :
       (Destroys(t, h) /\ \E g \in Handles \ {h} : handle[g] = "live")
         => UNCHANGED <<_closed, q>>]_vars

\* some handle of the core has been destroyed
Destroyed == \E h \in Handles : handle[h] = "dead"

\* C15: once a handle has been destroyed the core is closed, its buffer is
\* empty and no thread is left waiting in send or recv; every thread the
\* destructor's close woke goes on, the senders to return false and the
\* receivers to exit, so that eventually no thread is inside send or recv
\* or the process has ended.
C15_DestroyedCloses ==
  /\ [](Destroyed => (_closed /\ q = <<>> /\ _full = {} /\ _empty = {}))
  /\ Destroyed ~>
       (exitCode # Running \/ \A t \in Threads : ~InSend(t) /\ ~InRecv(t))

\* the destructor of one handle has just closed the core with a sender and
\* a receiver inside their calls through the other handle, both awake now
C15_Witness ==
  /\ Destroyed /\ exitCode = Running
  /\ \E u \in Threads : ret = Ret(u, "dtor", TRUE, 0)
  /\ \E t \in Threads : pc[t] = "send_woke"
  /\ \E t \in Threads : pc[t] = "recv_woke"

====
